---------------------------- MODULE Spec2Model ----------------------------
(* Model of the chibisafe uploader: the client scheduler                   *)
(* (packages/uploader-client/src/index.ts, chibiUploader) under Spec and   *)
(* LiveSpec, with the chunk number of each request under NumberSpec and    *)
(* with further chibiUploader calls in the same page under ProcessSpec;    *)
(* the chunk plan and its reassembly under PlanSpec, the header checks of  *)
(* the receiver under HeaderSpec, and the receiver itself                  *)
(* (packages/uploader-module/src/index.ts, processFile and processBusboy)  *)
(* with the request handler of the reference server                        *)
(* (module/test/server.ts) under ReceiverSpec.  In the client model there  *)
(* is one upload session; every synchronous stretch of JavaScript between  *)
(* two awaits is one atomic action, the awaited I/O (Blob.arrayBuffer,     *)
(* fetch, response.json, XMLHttpRequest, setTimeout) completes as its own  *)
(* action.                                                                 *)
EXTENDS Integers, Sequences, FiniteSets, TLC

(***************************************************************************)
(* Bounds of the model                                                     *)
(***************************************************************************)
MaxChunks == 3
MaxParallel == 2
MaxRetries == 1
MaxStartCalls == 1
MaxToggleCalls == 2
MaxFailures == 2

(***************************************************************************)
(* Server answers: HTTP status codes, and 0 for a rejected fetch / an XHR  *)
(* network error.  Bodies of a successful last-chunk response.             *)
(***************************************************************************)
NetErr == 0
Statuses == {NetErr, 200, 413, 500, 503}
Bodies == {"url", "nourl", "badjson"}

VARIABLES
    totalChunks,             \* Math.ceil(file.size / chunkSize)
    maxParallelUploads,      \* options.maxParallelUploads
    retries,                 \* options.retries
    autoStart,               \* options.autoStart
    method,                  \* options.method
    paused,                  \* uploader.paused
    retriesCount,            \* uploader.retriesCount
    StopUploadsBecauseError, \* module-level flag
    timers,                  \* pending setTimeout(sendChunks) callbacks
    runs,                    \* the sendChunks invocations, in start order
    startCalls,              \* start() calls made by the caller
    toggleCalls,             \* togglePause() calls made by the caller
    failures,                \* answers other than success given by the server
    onFinishN,               \* options.onFinish invocations
    fatalN,                  \* options.onError('Chunks are too big...') invocations
    onRetryN,                \* options.onRetry invocations, per chunk index
    exhaustN,                \* options.onError('No more retries') invocations, per chunk index
    outcome,                 \* per chunk index: what the latest answer led to
    streak,                  \* per chunk index: consecutive transient answers so far
    lastAccepted,            \* a request carrying the last chunk was answered 200/201/204
    watch,                   \* whether the history of the resume is recorded
    resumed,                 \* togglePause() has resumed the session
    preResume,               \* requests that were in flight at the resume
    badAfter,                \* a request issued after the resume was not answered with success
    headers,                 \* names of the entries of the session's headers object
    xhrSent,                 \* XMLHttpRequest requests sent (single-chunk session)
    xhrHeaders,              \* names of the headers set on those requests
    track,                   \* whether chibi-chunk-number and the parsed body are followed
    chunkNumber,             \* headers['chibi-chunk-number'], 0 while it is not set
    misnumbered              \* a chunk request was sent with the number of another chunk

cfgVars == <<totalChunks, maxParallelUploads, retries, autoStart, method>>
histVars == <<onFinishN, fatalN, onRetryN, exhaustN, outcome, streak,
              lastAccepted, watch, resumed, preResume, badAfter>>
reqVars == <<headers, xhrSent, xhrHeaders, track, chunkNumber, misnumbered>>
clientVars == <<totalChunks, maxParallelUploads, retries, autoStart, method,
                paused, retriesCount, StopUploadsBecauseError, timers, runs,
                startCalls, toggleCalls, failures,
                onFinishN, fatalN, onRetryN, exhaustN, outcome, streak,
                lastAccepted, watch, resumed, preResume, badAfter,
                headers, xhrSent, xhrHeaders, track, chunkNumber, misnumbered>>

(***************************************************************************)
(* State of the chunk plan and of its reassembly (getChunks of the client, *)
(* joinChunks of packages/uploader-module/src/index.ts)                    *)
(***************************************************************************)
VARIABLES
    fileSize,                \* file.size
    chunkSize,               \* options.chunkSize
    file,                    \* the bytes of the file
    plan,                    \* the descriptors returned by getChunks()
    chunkFiles,              \* the chunk files of the session directory, by name
    chunkCount,              \* joinChunks: the chunk being piped
    artifact,                \* the bytes written to finalFilePath
    stage                    \* "off", "new", "planned", "stored", "joining", "joined"

planVars == <<fileSize, chunkSize, file, plan, chunkFiles, chunkCount, artifact, stage>>

\* the plan and its reassembly are not part of the behaviour
PlanIdle ==
    /\ fileSize = 0
    /\ chunkSize = 0
    /\ file = <<>>
    /\ plan = <<>>
    /\ chunkFiles = <<>>
    /\ chunkCount = 0
    /\ artifact = <<>>
    /\ stage = "off"

(***************************************************************************)
(* State of the validation of one request by processBusboy                 *)
(* (packages/uploader-module/src/index.ts)                                 *)
(***************************************************************************)
VARIABLES
    reqHeaders,              \* req.headers: chibi-uuid, chibi-chunk-number, chibi-chunks-total
    options,                 \* options.maxFileSize, options.maxChunkSize
    verdict                  \* what the validation returned, "none" before it has run

hdrVars == <<reqHeaders, options, verdict>>

\* no request is being validated
HeadersIdle ==
    /\ reqHeaders = <<>>
    /\ options = <<>>
    /\ verdict = <<>>

(***************************************************************************)
(* State of the receiver: the processFile calls of the requests of one     *)
(* chunked session and of single-shot uploads, with the answer of the      *)
(* reference handler, and the session's temp directory                     *)
(* (packages/uploader-module/src/index.ts, module/test/server.ts)          *)
(***************************************************************************)
VARIABLES
    calls,                   \* the processFile calls, in order of arrival
    dir,                     \* whether <destination>/<uuid>_tmp exists
    files                    \* the chunk files of that directory: name |-> bytes written

srvVars == <<calls, dir, files>>

\* no request has been received
ReceiverIdle ==
    /\ calls = <<>>
    /\ dir = FALSE
    /\ files = <<>>

auxVars == <<planVars, hdrVars, srvVars>>
vars == <<clientVars, auxVars>>

Min(a, b) == IF a < b THEN a ELSE b

\* uploader.offline is initialised to false and never assigned
offline == FALSE

(***************************************************************************)
(* Response classification                                                 *)
(***************************************************************************)
IsSuccess(status) == status = 200 \/ status = 201 \/ status = 204

IsTransient(status) == status \in {408, 502, 503, 504}

IsTooBig(status) == status = 413

XhrSuccess(status) == status \in {200, 201, 204}

\* variant without the `uploader.totalChunks === index` test: completion is
\* signalled for any accepted chunk
IsLastChunkAny(index) == TRUE

IsLastChunk(index) == totalChunks = index

(***************************************************************************)
(* The chunk plan and its batches                                          *)
(***************************************************************************)
getChunks == [i \in 1..totalChunks |-> [index |-> i]]

slices == SubSeq(getChunks, 1, totalChunks - 1)

lastChunk == getChunks[Len(getChunks)]

slicesChunks ==
    LET starts == {i \in 0..(Len(slices) - 1) : i % maxParallelUploads = 0}
    IN  [k \in 1..Cardinality(starts) |->
            SubSeq(slices, (k - 1) * maxParallelUploads + 1,
                   Min((k - 1) * maxParallelUploads + maxParallelUploads, Len(slices)))]

\* phases 1..Len(slicesChunks) are the batches of the for loop, the phase
\* after them is the last chunk
LastPhase == Len(slicesChunks) + 1

PhaseChunks(k) ==
    IF k <= Len(slicesChunks)
    THEN {slicesChunks[k][j].index : j \in 1..Len(slicesChunks[k])}
    ELSE {lastChunk.index}

Chunks == 1..totalChunks

(***************************************************************************)
(* A sendChunks invocation: the phase it is in, the state of each chunk of *)
(* that phase, and whether the phase was entered while paused.             *)
(* Chunk states: "reading" (awaiting Blob.arrayBuffer), "inflight"         *)
(* (awaiting fetch), "parsing" (awaiting response.json), "settled"; "xhr"  *)
(* is the XMLHttpRequest of a single-chunk session, which stays in flight  *)
(* after its sendChunks invocation has returned (phase 0).                 *)
(***************************************************************************)
Done == [phase |-> 0, st |-> [i \in Chunks |-> "idle"], sp |-> FALSE]

EnterPhase(k, p) ==
    [phase |-> k,
     st |-> [i \in Chunks |-> IF i \in PhaseChunks(k) THEN "reading" ELSE "idle"],
     sp |-> p]

\* sendChunks(): returns at once when paused, else runs up to its first await
sendChunks(p, rs) ==
    IF p \/ offline THEN rs ELSE Append(rs, EnterPhase(1, FALSE))

\* the per-chunk promise of run r settles; when the whole phase has settled
\* the run goes on to the next phase or returns
Settle(rs, r, i) ==
    LET run == rs[r]
        st2 == [run.st EXCEPT ![i] = "settled"]
    IN  IF \E j \in PhaseChunks(run.phase) : st2[j] # "settled"
        THEN [rs EXCEPT ![r].st = st2]
        ELSE IF run.phase < LastPhase
             THEN [rs EXCEPT ![r] = EnterPhase(run.phase + 1, paused)]
             ELSE [rs EXCEPT ![r] = Done]

Active(r) == runs[r].phase # 0

ActiveRuns == {r \in DOMAIN runs : Active(r)}

XhrSent == [phase |-> 0, st |-> [i \in Chunks |-> "xhr"], sp |-> FALSE]

\* requests sent and not yet answered
InFlight ==
    {q \in (DOMAIN runs) \X Chunks : runs[q[1]].st[q[2]] \in {"inflight", "xhr"}}

\* requests sent whose answer has not been fully processed
Unanswered ==
    {q \in (DOMAIN runs) \X Chunks : runs[q[1]].st[q[2]] \in {"inflight", "xhr", "parsing"}}

\* the caller holds {togglePause, start} once chibiUploader has returned:
\* with autoStart that is after the awaited first sendChunks run
Handle == ~autoStart \/ (Len(runs) >= 1 /\ ~Active(1))

(***************************************************************************)
(* Initial state: chibiUploader up to and including `if (autoStart) await  *)
(* sendChunks()`                                                           *)
(***************************************************************************)
\* variant that sets the session headers whatever the number of chunks
sessionHeadersAlways == {"chibi-uuid", "chibi-chunks-total"}

\* the entries chibiUploader adds to the caller's (empty) headers object
sessionHeaders ==
    IF totalChunks > 1 THEN {"chibi-uuid", "chibi-chunks-total"} ELSE {}

\* the client side when a single-chunk or n-chunk session has been
\* constructed and nothing has been sent
ClientIdle(n) ==
    /\ totalChunks = n
    /\ maxParallelUploads = 1
    /\ retries = 1
    /\ autoStart = FALSE
    /\ method = "POST"
    /\ paused = FALSE
    /\ retriesCount = 0
    /\ StopUploadsBecauseError = FALSE
    /\ timers = 0
    /\ runs = <<>>
    /\ startCalls = 0
    /\ toggleCalls = 0
    /\ failures = 0
    /\ onFinishN = 0
    /\ fatalN = 0
    /\ onRetryN = [i \in 1..n |-> 0]
    /\ exhaustN = [i \in 1..n |-> 0]
    /\ outcome = [i \in 1..n |-> "none"]
    /\ streak = [i \in 1..n |-> 0]
    /\ lastAccepted = FALSE
    /\ watch = FALSE
    /\ resumed = FALSE
    /\ preResume = {}
    /\ badAfter = FALSE
    /\ headers = sessionHeaders
    /\ xhrSent = 0
    /\ xhrHeaders = {}
    /\ track = FALSE
    /\ chunkNumber = 0
    /\ misnumbered = FALSE

Start(n, w) ==
    /\ PlanIdle
    /\ HeadersIdle
    /\ ReceiverIdle
    /\ totalChunks \in 1..n
    /\ maxParallelUploads \in 1..MaxParallel
    /\ retries \in 1..MaxRetries
    /\ autoStart \in BOOLEAN
    /\ method \in {"POST", "PUT"}
    /\ (totalChunks > 1 => method = "POST")
    /\ paused = FALSE
    /\ retriesCount = 0
    /\ StopUploadsBecauseError = FALSE
    /\ timers = 0
    /\ runs = IF autoStart THEN sendChunks(FALSE, <<>>) ELSE <<>>
    /\ startCalls = 0
    /\ toggleCalls = 0
    /\ failures = 0
    /\ onFinishN = 0
    /\ fatalN = 0
    /\ onRetryN = [i \in 1..totalChunks |-> 0]
    /\ exhaustN = [i \in 1..totalChunks |-> 0]
    /\ outcome = [i \in 1..totalChunks |-> "none"]
    /\ streak = [i \in 1..totalChunks |-> 0]
    /\ lastAccepted = FALSE
    /\ watch = w
    /\ resumed = FALSE
    /\ preResume = {}
    /\ badAfter = FALSE
    /\ headers = sessionHeaders
    /\ xhrSent = 0
    /\ xhrHeaders = {}
    /\ chunkNumber = 0
    /\ misnumbered = FALSE

Init == Start(MaxChunks, FALSE) /\ track = FALSE

(***************************************************************************)
(* History kept for the properties                                         *)
(***************************************************************************)
OkStatuses == {200, 201, 204}

IssuedAfterResume(r, i) == watch /\ resumed /\ <<r, i>> \notin preResume

(***************************************************************************)
(* Blob.arrayBuffer() of chunk i resolves in run r: actuallySendChunks     *)
(* checks the stop flag and calls sendChunk, which issues the request      *)
(***************************************************************************)
\* variant in which the assignment of the header takes effect after fetch
\* has read the headers object
setChunkNumberLate(old, index) == old

\* headers['chibi-chunk-number'] = index
setChunkNumber(old, index) == index

BufferReady(r, i) ==
    /\ r \in DOMAIN runs
    /\ i \in Chunks
    /\ runs[r].st[i] = "reading"
    /\ runs' = IF StopUploadsBecauseError
               THEN Settle(runs, r, i)
               ELSE IF totalChunks = 1
                    THEN [runs EXCEPT ![r] = XhrSent]
                    ELSE [runs EXCEPT ![r].st[i] = "inflight"]
    /\ IF StopUploadsBecauseError
       THEN UNCHANGED reqVars
       ELSE IF totalChunks = 1
            THEN /\ xhrSent' = xhrSent + 1
                 /\ xhrHeaders' = xhrHeaders \cup headers
                 /\ UNCHANGED <<headers, track, chunkNumber, misnumbered>>
            ELSE /\ headers' = headers \cup {"chibi-chunk-number"}
                 /\ chunkNumber' = IF track THEN setChunkNumber(chunkNumber, i) ELSE chunkNumber
                 \* fetch reads the headers object when it is called
                 /\ misnumbered' = (misnumbered \/ (track /\ chunkNumber' # i))
                 /\ UNCHANGED <<xhrSent, xhrHeaders, track>>
    /\ UNCHANGED <<cfgVars, auxVars, paused, retriesCount, StopUploadsBecauseError,
                   timers, startCalls, toggleCalls, failures, histVars>>

(***************************************************************************)
(* manageRetries(index): the post-incremented session counter decides      *)
(* between a retry timer with onRetry and the terminal onError             *)
(***************************************************************************)
MayRetry(index) == retriesCount < retries

retriesLeft == IF retriesCount < retries THEN retries - retriesCount ELSE 0

manageRetries(index) ==
    /\ retriesCount' = retriesCount + 1
    /\ streak' = [streak EXCEPT ![index] = @ + 1]
    /\ IF MayRetry(index)
       THEN /\ timers' = timers + 1
            /\ onRetryN' = [onRetryN EXCEPT ![index] = @ + 1]
            /\ outcome' = [outcome EXCEPT ![index] = "retry"]
            /\ UNCHANGED exhaustN
       ELSE /\ exhaustN' = [exhaustN EXCEPT ![index] = @ + 1]
            /\ outcome' = [outcome EXCEPT ![index] = "exhausted"]
            /\ UNCHANGED <<timers, onRetryN>>

(***************************************************************************)
(* fetch of chunk i of run r settles with a status (or rejects): the rest  *)
(* of actuallySendChunks up to its next await                              *)
(***************************************************************************)
\* variant that never suppresses the effects of an answer
SuppressedNever == FALSE

\* `if (uploader.paused || uploader.offline) return;`
Suppressed == paused \/ offline

Respond(r, i, status) ==
    /\ r \in DOMAIN runs
    /\ i \in Chunks
    /\ runs[r].st[i] = "inflight"
    /\ status \in OkStatuses \/ failures < MaxFailures
    /\ failures' = IF status \in OkStatuses THEN failures ELSE failures + 1
    /\ lastAccepted' = (lastAccepted \/ (i = totalChunks /\ status \in OkStatuses))
    /\ badAfter' = (badAfter \/ (IssuedAfterResume(r, i) /\ status \notin OkStatuses))
    /\ IF status # NetErr /\ IsSuccess(status)
       THEN /\ runs' = IF totalChunks > 1 /\ IsLastChunk(i)
                       THEN [runs EXCEPT ![r].st[i] = "parsing"]
                       ELSE Settle(runs, r, i)
            /\ preResume' = IF totalChunks > 1 /\ IsLastChunk(i)
                            THEN preResume ELSE preResume \ {<<r, i>>}
            /\ outcome' = [outcome EXCEPT ![i] = "accepted"]
            /\ streak' = [streak EXCEPT ![i] = 0]
            /\ UNCHANGED <<retriesCount, StopUploadsBecauseError, timers,
                           fatalN, onRetryN, exhaustN>>
       ELSE /\ runs' = Settle(runs, r, i)
            /\ preResume' = preResume \ {<<r, i>>}
            /\ IF status = NetErr \/ IsTransient(status)
               THEN IF Suppressed
                    THEN /\ outcome' = [outcome EXCEPT ![i] = "suppressed"]
                         /\ streak' = [streak EXCEPT ![i] = 0]
                         /\ UNCHANGED <<retriesCount, StopUploadsBecauseError,
                                        timers, fatalN, onRetryN, exhaustN>>
                    ELSE /\ manageRetries(i)
                         /\ UNCHANGED <<StopUploadsBecauseError, fatalN>>
               ELSE IF IsTooBig(status)
                    THEN /\ fatalN' = fatalN + 1
                         /\ StopUploadsBecauseError' = TRUE
                         /\ outcome' = [outcome EXCEPT ![i] = "fatal"]
                         /\ streak' = [streak EXCEPT ![i] = 0]
                         /\ UNCHANGED <<retriesCount, timers, onRetryN, exhaustN>>
                    ELSE /\ outcome' = [outcome EXCEPT ![i] =
                                           IF Suppressed THEN "suppressed" ELSE "fatal"]
                         /\ streak' = [streak EXCEPT ![i] = 0]
                         /\ UNCHANGED <<retriesCount, StopUploadsBecauseError,
                                        timers, fatalN, onRetryN, exhaustN>>
    /\ UNCHANGED <<cfgVars, auxVars, reqVars, paused, startCalls, toggleCalls, onFinishN, watch, resumed>>

(***************************************************************************)
(* response.json() of the last chunk's answer resolves or rejects          *)
(***************************************************************************)
\* variant that signals completion whatever the body is
jsonOutcomeAlwaysFinished(body) == "finished"

\* what the parsed body of the last chunk's answer leads to: onFinish, or
\* onError('No URL returned by the server'), or onError('There was a
\* problem parsing the JSON response')
jsonOutcome(body) ==
    IF body = "badjson" THEN "badjson"
    ELSE IF body = "url" THEN "finished" ELSE "nolocator"

JsonReady(r, i, body) ==
    /\ r \in DOMAIN runs
    /\ i \in Chunks
    /\ runs[r].st[i] = "parsing"
    /\ onFinishN' = IF jsonOutcome(body) = "finished" THEN onFinishN + 1 ELSE onFinishN
    /\ outcome' = IF track THEN [outcome EXCEPT ![i] = jsonOutcome(body)] ELSE outcome
    /\ badAfter' = (badAfter \/ (IssuedAfterResume(r, i) /\ body # "url"))
    /\ preResume' = preResume \ {<<r, i>>}
    /\ runs' = Settle(runs, r, i)
    /\ UNCHANGED <<cfgVars, auxVars, reqVars, paused, retriesCount, StopUploadsBecauseError,
                   timers, startCalls, toggleCalls, failures, fatalN, onRetryN,
                   exhaustN, streak, lastAccepted, watch, resumed>>

(***************************************************************************)
(* xhr.onreadystatechange with readyState 4 (single-chunk session)         *)
(***************************************************************************)
XhrDone(r, status, body) ==
    /\ r \in DOMAIN runs
    /\ totalChunks = 1
    /\ runs[r].st[1] = "xhr"
    /\ status \in OkStatuses \/ failures < MaxFailures
    /\ failures' = IF status \in OkStatuses THEN failures ELSE failures + 1
    /\ LET finish == XhrSuccess(status) /\ (method = "POST" => body # "badjson")
       IN  /\ onFinishN' = IF finish THEN onFinishN + 1 ELSE onFinishN
           /\ badAfter' = (badAfter \/ (IssuedAfterResume(r, 1) /\ ~finish))
    /\ outcome' = [outcome EXCEPT ![1] = IF XhrSuccess(status) THEN "accepted" ELSE "fatal"]
    /\ lastAccepted' = (lastAccepted \/ status \in OkStatuses)
    /\ preResume' = preResume \ {<<r, 1>>}
    /\ runs' = [runs EXCEPT ![r] = Done]
    /\ UNCHANGED <<cfgVars, auxVars, reqVars, paused, retriesCount, StopUploadsBecauseError,
                   timers, startCalls, toggleCalls, fatalN, onRetryN,
                   exhaustN, streak, watch, resumed>>

(***************************************************************************)
(* A retry timer set by manageRetries fires: sendChunks()                  *)
(***************************************************************************)
RetryTimer ==
    /\ timers > 0
    /\ timers' = timers - 1
    /\ runs' = sendChunks(paused, runs)
    /\ UNCHANGED <<cfgVars, auxVars, reqVars, paused, retriesCount, StopUploadsBecauseError,
                   startCalls, toggleCalls, failures, histVars>>

(***************************************************************************)
(* The caller's handle: start() and togglePause()                          *)
(***************************************************************************)
start ==
    /\ Handle
    /\ startCalls < MaxStartCalls
    /\ startCalls' = startCalls + 1
    /\ runs' = sendChunks(paused, runs)
    /\ UNCHANGED <<cfgVars, auxVars, reqVars, paused, retriesCount, StopUploadsBecauseError,
                   timers, toggleCalls, failures, histVars>>

\* the resume clears the "entered while paused" marks of the runs
Unmarked(rs) == [r \in DOMAIN rs |-> [rs[r] EXCEPT !.sp = FALSE]]

\* variant of togglePause whose resume does not call sendChunks()
togglePauseNoResend ==
    /\ Handle
    /\ toggleCalls < MaxToggleCalls
    /\ toggleCalls' = toggleCalls + 1
    /\ paused' = ~paused
    /\ runs' = IF ~paused' THEN Unmarked(runs) ELSE runs
    /\ resumed' = (resumed \/ ~paused')
    /\ preResume' = IF watch /\ ~paused' /\ ~resumed THEN Unanswered ELSE preResume
    /\ UNCHANGED <<cfgVars, auxVars, reqVars, retriesCount, StopUploadsBecauseError, timers,
                   startCalls, failures, onFinishN, fatalN, onRetryN, exhaustN,
                   outcome, streak, lastAccepted, watch, badAfter>>

togglePause ==
    /\ Handle
    /\ toggleCalls < MaxToggleCalls
    /\ toggleCalls' = toggleCalls + 1
    /\ paused' = ~paused
    /\ runs' = IF ~paused' THEN sendChunks(paused', Unmarked(runs)) ELSE runs
    /\ resumed' = (resumed \/ ~paused')
    /\ preResume' = IF watch /\ ~paused' /\ ~resumed THEN Unanswered ELSE preResume
    /\ UNCHANGED <<cfgVars, auxVars, reqVars, retriesCount, StopUploadsBecauseError, timers,
                   startCalls, failures, onFinishN, fatalN, onRetryN, exhaustN,
                   outcome, streak, lastAccepted, watch, badAfter>>

Next ==
    \/ \E r \in DOMAIN runs, i \in Chunks : BufferReady(r, i)
    \/ \E r \in DOMAIN runs, i \in Chunks, status \in Statuses : Respond(r, i, status)
    \/ \E r \in DOMAIN runs, i \in Chunks, body \in Bodies : JsonReady(r, i, body)
    \/ \E r \in DOMAIN runs, status \in Statuses, body \in Bodies : XhrDone(r, status, body)
    \/ RetryTimer
    \/ start
    \/ togglePause

Spec == Init /\ [][Next]_vars

(***************************************************************************)
(* Properties                                                              *)
(***************************************************************************)

\* C1: onFinish is invoked only after a request carrying the last chunk
\* (index == totalChunks; the sole request of a single-chunk session) has
\* been answered with a success status 200, 201 or 204.
FinishOnlyAfterLastAccepted == onFinishN > 0 => lastAccepted

FinishedAfterRetry == onFinishN > 0 /\ totalChunks > 1 /\ retriesCount > 0

\* C2: while a request carrying the last chunk of a multi-chunk session is
\* in flight, no request for any other chunk of the session is in flight.
LastChunkSentAlone ==
    \A q1 \in InFlight, q2 \in InFlight :
        (totalChunks > 1 /\ q1[2] = totalChunks) => q2[2] = totalChunks

\* C3: at most one sendChunks run of the session is active at any time.
SingleSendChunksRun == Cardinality(ActiveRuns) <= 1

\* C4: the number of in-flight chunk requests of the session never exceeds
\* maxParallelUploads.
InFlightWithinLimit == Cardinality(InFlight) <= maxParallelUploads

\* C5: a run has a request of a later phase in flight only when every chunk
\* of the earlier batches has a terminal outcome: accepted, retries
\* exhausted or fatal (a scheduled retry is not terminal).
BatchWaitsForTerminalOutcomes ==
    \A r \in DOMAIN runs : \A i \in Chunks :
        runs[r].st[i] \in {"inflight", "parsing"} =>
            \A k \in 1..(runs[r].phase - 1) : \A j \in PhaseChunks(k) :
                outcome[j] \in {"accepted", "exhausted", "fatal"}

\* C6: a transient answer for a chunk that follows fewer than `retries`
\* consecutive transient answers for that chunk triggers one onRetry for it,
\* the one that follows exactly `retries` of them triggers one terminal
\* onError; a step that processes no failed answer (a success answer among
\* them) schedules no retry and reports no retry-exhaustion error.
RetriesThenTerminalError ==
    [][/\ \A i \in Chunks :
            /\ (streak'[i] = streak[i] + 1 /\ streak[i] < retries) =>
                   (onRetryN'[i] = onRetryN[i] + 1 /\ exhaustN'[i] = exhaustN[i])
            /\ (streak'[i] = streak[i] + 1 /\ streak[i] = retries) =>
                   (onRetryN'[i] = onRetryN[i] /\ exhaustN'[i] = exhaustN[i] + 1)
       /\ (failures' = failures) =>
              (onRetryN' = onRetryN /\ exhaustN' = exhaustN /\ timers' <= timers)
      ]_vars

\* C7: the retries still available to a chunk are `retries` minus the
\* retries that chunk itself has used, whatever other chunks have used.
RetryBudgetPerChunk == \A j \in Chunks : retriesLeft = retries - onRetryN[j]

\* C8: once a 413 has been processed exactly one fatal onError has been
\* reported, and no further request of the session is issued.
StopAfterTooBig ==
    /\ [](StopUploadsBecauseError => fatalN = 1)
    /\ [][StopUploadsBecauseError => InFlight' \subseteq InFlight]_vars

\* C9: while the session is paused no run has an outstanding request of a
\* phase (a later batch or the last chunk) that it entered after the pause.
PauseStopsNewBatches ==
    paused => \A r \in DOMAIN runs : \A i \in Chunks :
                  runs[r].sp => runs[r].st[i] \notin {"inflight", "parsing"}

(***************************************************************************)
(* The resumed session under fair scheduling: every pending buffer read,   *)
(* request, body read and retry timer eventually completes                 *)
(***************************************************************************)
MaxLiveChunks == 2

InitLive == Start(MaxLiveChunks, TRUE) /\ maxParallelUploads = 1 /\ track = FALSE

Fairness ==
    /\ WF_vars(\E r \in DOMAIN runs, i \in Chunks : BufferReady(r, i))
    /\ WF_vars(\E r \in DOMAIN runs, i \in Chunks, status \in Statuses : Respond(r, i, status))
    /\ WF_vars(\E r \in DOMAIN runs, i \in Chunks, body \in Bodies : JsonReady(r, i, body))
    /\ WF_vars(\E r \in DOMAIN runs, status \in Statuses, body \in Bodies : XhrDone(r, status, body))
    /\ WF_vars(RetryTimer)

LiveSpec == InitLive /\ [][Next]_vars /\ Fairness

\* C10 as stated: after a resume, unless a request issued afterwards is not
\* answered with success (or the last answer lacks the locator), onFinish is
\* eventually invoked.
ResumeLeadsToFinish == resumed ~> (onFinishN > 0 \/ badAfter)

\* C10 amended: the same, provided the fatal-stop flag is never set by a 413.
ResumeLeadsToFinishUnlessStopped ==
    resumed ~> (onFinishN > 0 \/ badAfter \/ StopUploadsBecauseError)

ResumedThenFinished ==
    /\ resumed /\ onFinishN > 0 /\ ~badAfter /\ ~StopUploadsBecauseError
    /\ totalChunks > 1 /\ ~autoStart /\ startCalls = 0


(***************************************************************************)
(* C11: a single-chunk session sends plain requests: none of them carries  *)
(* a chibi-uuid, chibi-chunks-total or chibi-chunk-number header, every    *)
(* sendChunks invocation that got to send has issued exactly one           *)
(* XMLHttpRequest (no chunk request, no retry), and onFinish is reported   *)
(* at most once per request sent.                                          *)
(***************************************************************************)
ChibiHeaders == {"chibi-uuid", "chibi-chunks-total", "chibi-chunk-number"}

SingleChunkPlainRequest ==
    totalChunks = 1 =>
        /\ xhrHeaders \cap ChibiHeaders = {}
        /\ headers \cap ChibiHeaders = {}
        /\ xhrSent = Cardinality({r \in DOMAIN runs : runs[r].st[1] # "reading"})
        /\ \A r \in DOMAIN runs : runs[r].st[1] \notin {"inflight", "parsing"}
        /\ timers = 0
        /\ onFinishN <= xhrSent
        /\ (Len(runs) = 1 /\ onFinishN > 0 => xhrSent = 1)

\* a single-chunk session started once has completed through its one request
SingleChunkFinished ==
    totalChunks = 1 /\ Len(runs) = 1 /\ onFinishN = 1 /\ xhrSent = 1

(***************************************************************************)
(* The chunk plan with its byte ranges, and the reassembly of the chunk    *)
(* files by joinChunks                                                     *)
(***************************************************************************)
MaxFileSize == 7
MaxChunkSize == 4

\* Math.ceil(a / b) for positive integers
Ceil(a, b) == IF a % b = 0 THEN a \div b ELSE (a \div b) + 1

\* variant of Blob.slice that does not clip the range to the blob
sliceUnclipped(size, from, to) == [start |-> from, end |-> to]

\* Blob.slice(start, end) of a blob of `size` bytes: both ends are clipped
sliceOf(size, from, to) ==
    LET s == Min(from, size)
        e == Min(to, size)
    IN  [start |-> s, end |-> IF e < s THEN s ELSE e]

\* getChunks(): descriptor i + 1 is file.slice(chunkSize * i, chunkSize * i + chunkSize)
getChunksOf(size, csize) ==
    [k \in 1..totalChunks |->
        LET i == k - 1
            from == csize * i
            to == from + csize
        IN  [index |-> getChunks[k].index, chunk |-> sliceOf(size, from, to)]]

\* the bytes of a slice (byte offsets are 0-based, sequences 1-based)
BytesOf(f, sl) == SubSeq(f, sl.start + 1, sl.end)

\* variant of the loop test of pipeChunk that stops one chunk early
MoreChunksButLast(count, total) == count < total

\* joinChunks: `if (chunkCount <= totalChunks) pipeChunk()`
MoreChunks(count, total) == count <= total

InitPlan ==
    /\ fileSize \in 1..MaxFileSize
    /\ chunkSize \in 1..MaxChunkSize
    /\ ClientIdle(Ceil(fileSize, chunkSize))
    /\ HeadersIdle
    /\ ReceiverIdle
    /\ file = [p \in 1..fileSize |-> p]
    /\ plan = <<>>
    /\ chunkFiles = <<>>
    /\ chunkCount = 0
    /\ artifact = <<>>
    /\ stage = "new"

\* sendChunks calls getChunks()
PlanChunks ==
    /\ stage = "new"
    /\ plan' = getChunksOf(fileSize, chunkSize)
    /\ stage' = "planned"
    /\ UNCHANGED <<clientVars, hdrVars, srvVars, fileSize, chunkSize, file, chunkFiles, chunkCount, artifact>>

\* every planned chunk has been received and written under its index
StoreChunks ==
    /\ stage = "planned"
    /\ chunkFiles' = [k \in {plan[j].index : j \in 1..Len(plan)} |->
                         BytesOf(file, (CHOOSE d \in {plan[j] : j \in 1..Len(plan)} : d.index = k).chunk)]
    /\ stage' = "stored"
    /\ UNCHANGED <<clientVars, hdrVars, srvVars, fileSize, chunkSize, file, plan, chunkCount, artifact>>

\* joinChunks up to its first pipeChunk()
JoinStart ==
    /\ stage = "stored"
    /\ artifact' = <<>>
    /\ chunkCount' = 1
    /\ stage' = "joining"
    /\ UNCHANGED <<clientVars, hdrVars, srvVars, fileSize, chunkSize, file, plan, chunkFiles>>

\* the read stream of chunk file chunkCount has delivered its data and ended
PipeChunk ==
    /\ stage = "joining"
    /\ chunkCount \in DOMAIN chunkFiles
    /\ artifact' = artifact \o chunkFiles[chunkCount]
    /\ chunkCount' = chunkCount + 1
    /\ IF MoreChunks(chunkCount', totalChunks)
       THEN UNCHANGED <<stage, chunkFiles>>
       ELSE /\ stage' = "joined"
            /\ chunkFiles' = <<>>
    /\ UNCHANGED <<clientVars, hdrVars, srvVars, fileSize, chunkSize, file, plan>>

NextPlan == PlanChunks \/ StoreChunks \/ JoinStart \/ PipeChunk

PlanSpec == InitPlan /\ [][NextPlan]_vars

(***************************************************************************)
(* C12: the plan has ceil(fileSize / chunkSize) descriptors, the least     *)
(* number of chunkSize-byte pieces that hold the file, indexed 1..N in     *)
(* order, and every byte offset of [0, fileSize) lies in the range of      *)
(* exactly one descriptor, no range reaching outside the file.             *)
(***************************************************************************)
PlanCoversFile ==
    stage # "new" =>
        /\ Len(plan) = totalChunks
        /\ totalChunks * chunkSize >= fileSize
        /\ (totalChunks - 1) * chunkSize < fileSize
        /\ \A k \in 1..Len(plan) : plan[k].index = k
        /\ \A b \in 0..(fileSize - 1) :
              Cardinality({k \in 1..Len(plan) :
                              plan[k].chunk.start <= b /\ b < plan[k].chunk.end}) = 1
        /\ \A k \in 1..Len(plan) :
              /\ 0 <= plan[k].chunk.start
              /\ plan[k].chunk.start < plan[k].chunk.end
              /\ plan[k].chunk.end <= fileSize

\* a plan of three chunks whose last chunk is shorter than the others
PlannedWithShortLastChunk ==
    /\ stage = "planned"
    /\ Len(plan) = 3
    /\ plan[3].chunk.end - plan[3].chunk.start < chunkSize

(***************************************************************************)
(* C13: when joinChunks has finished, the final artifact equals the file   *)
(* byte for byte (the bytes of the file are pairwise different, so a       *)
(* chunk out of order, repeated or left out would show).                   *)
(***************************************************************************)
JoinRestoresFile == stage = "joined" => artifact = file

\* 7 bytes at chunk size 3 (3, 3, 1) have been joined
JoinedThreeChunks ==
    /\ stage = "joined"
    /\ totalChunks = 3
    /\ fileSize % chunkSize # 0
    /\ Len(artifact) = fileSize

(***************************************************************************)
(* Validation of the request headers: checkIfUuid, checkHeaders,           *)
(* isBiggerThanMaxSize and the head of processBusboy.                      *)
(* A header value is undefined, a string (a sequence of characters), or,   *)
(* for chibi-uuid, a value that is not a string (a number, or the array    *)
(* node builds for a repeated header).                                     *)
(***************************************************************************)
MaxHeaderLen == 2
MaxChunkOption == 2
MaxFileOption == 6

Undefined == [t |-> "undefined"]
Str(chars) == [t |-> "string", s |-> chars]
Num123 == [t |-> "number", n |-> 123]
Arr == [t |-> "object"]
Bool(b) == [t |-> "boolean", b |-> b]

\* ToBoolean
Truthy(v) ==
    CASE v.t = "undefined" -> FALSE
      [] v.t = "string" -> Len(v.s) > 0
      [] v.t = "number" -> v.n # 0
      [] v.t = "boolean" -> v.b
      [] OTHER -> TRUE

\* a && b and a || b return one of their operands
And(a, b) == IF Truthy(a) THEN b ELSE a
Or(a, b) == IF Truthy(a) THEN a ELSE b

Digit == {"0", "1", "2", "3", "4", "5", "6", "7", "8", "9"}
Hex == Digit \cup {"a", "b", "c", "d", "e", "f"}

\* /[\da-f]{8}-[\da-f]{4}-4[\da-f]{3}-[89ab][\da-f]{3}-[\da-f]{12}/
\* as a sequence of <<character class, repetitions>>
UuidRegex ==
    << <<Hex, 8>>, <<{"-"}, 1>>, <<Hex, 4>>, <<{"-"}, 1>>, <<{"4"}, 1>>, <<Hex, 3>>,
       <<{"-"}, 1>>, <<{"8", "9", "a", "b"}, 1>>, <<Hex, 3>>, <<{"-"}, 1>>, <<Hex, 12>> >>

RECURSIVE Classes(_)
\* the character classes of a regex, one per character matched
Classes(re) ==
    IF re = <<>> THEN <<>>
    ELSE [k \in 1..re[1][2] |-> re[1][1]] \o Classes(Tail(re))

\* RegExp.test without anchors: the pattern matches somewhere in the string
Test(re, chars) ==
    LET cl == Classes(re)
    IN  \E o \in 0..(Len(chars) - Len(cl)) :
            \A k \in 1..Len(cl) : chars[o + k] \in cl[k]

\* /^\d+$/.test(string)
TestDigits(chars) == Len(chars) >= 1 /\ \A k \in 1..Len(chars) : chars[k] \in Digit

Returns(v) == [throws |-> FALSE, value |-> v]
Throws(m) == [throws |-> TRUE, message |-> m]

\* variant of checkIfUuid without the length test
checkIfUuidAnyLength(h) ==
    IF ~Truthy(h.uuid) THEN Returns(FALSE)
    ELSE IF h.uuid.t # "string" THEN Throws("chibi-uuid is not a string")
    ELSE IF ~Test(UuidRegex, h.uuid.s) THEN Throws("chibi-uuid is not a valid uuid")
    ELSE Returns(TRUE)

checkIfUuid(h) ==
    IF ~Truthy(h.uuid) THEN Returns(FALSE)
    ELSE IF h.uuid.t # "string" THEN Throws("chibi-uuid is not a string")
    ELSE IF Len(h.uuid.s) # 36 THEN Throws("chibi-uuid does not meet the length criteria")
    ELSE IF ~Test(UuidRegex, h.uuid.s) THEN Throws("chibi-uuid is not a valid uuid")
    ELSE Returns(TRUE)

\* variant of checkHeaders without the trailing `|| false`
checkHeadersNoDefault(h) ==
    And(And(And(h.number, h.total),
            Bool(h.number.t = "string" /\ TestDigits(h.number.s))),
        Bool(h.total.t = "string" /\ TestDigits(h.total.s)))

checkHeaders(h) ==
    Or(And(And(And(h.number, h.total),
               Bool(h.number.t = "string" /\ TestDigits(h.number.s))),
           Bool(h.total.t = "string" /\ TestDigits(h.total.s))),
       Bool(FALSE))

\* a JavaScript number: an integer or NaN
NaN == [nan |-> TRUE, n |-> 0]
Finite(n) == [nan |-> FALSE, n |-> n]

DigitValue(c) == CHOOSE d \in 0..9 : <<"0", "1", "2", "3", "4", "5", "6", "7", "8", "9">>[d + 1] = c

RECURSIVE Decimal(_)
Decimal(chars) ==
    IF chars = <<>> THEN 0
    ELSE 10 * Decimal(SubSeq(chars, 1, Len(chars) - 1)) + DigitValue(chars[Len(chars)])

\* Number(value) for undefined and for strings of digits and "-"
Number(v) ==
    IF v.t = "undefined" THEN NaN
    ELSE IF v.s = <<>> THEN Finite(0)
    ELSE IF TestDigits(v.s) THEN Finite(Decimal(v.s))
    ELSE IF v.s[1] = "-" /\ TestDigits(Tail(v.s)) THEN Finite(0 - Decimal(Tail(v.s)))
    ELSE NaN

\* variant of isBiggerThanMaxSize that compares with >=
isBiggerOrEqualMaxSize(maxFileSize, maxChunkSize, total) ==
    ~total.nan /\ maxChunkSize * total.n >= maxFileSize

\* maxChunkSize * totalChunks > maxFileSize; a comparison with NaN is false
isBiggerThanMaxSize(maxFileSize, maxChunkSize, total) ==
    ~total.nan /\ maxChunkSize * total.n > maxFileSize

\* processBusboy up to the creation of the Busboy parser: the promise is
\* rejected, or the body is going to be parsed
validate(h, o) ==
    LET usingChunks == checkIfUuid(h)
    IN  IF usingChunks.throws
        THEN [kind |-> "rejected", message |-> usingChunks.message]
        ELSE IF usingChunks.value /\ ~Truthy(checkHeaders(h))
        THEN [kind |-> "rejected", message |-> "Invalid headers"]
        ELSE IF isBiggerThanMaxSize(o.maxFileSize, o.maxChunkSize, Number(h.total))
        THEN [kind |-> "rejected", message |-> "Chunked upload is above size limit"]
        ELSE [kind |-> "busboy", usingChunks |-> usingChunks.value]

\* the inputs
ValidUuid ==
    <<"6", "7", "f", "e", "1", "0", "2", "8", "-", "8", "8", "7", "5", "-",
      "4", "8", "0", "a", "-", "8", "a", "a", "b", "-",
      "1", "5", "4", "0", "2", "3", "0", "f", "5", "6", "7", "4">>

UuidChars == {"0", "4", "7", "8", "9", "a", "b", "c", "f", "A", "F", "g", "Z", "-", " "}

\* the valid uuid with one character replaced, cut, or extended
UuidStrings ==
    {[ValidUuid EXCEPT ![p] = c] : p \in 1..36, c \in UuidChars}
    \cup {SubSeq(ValidUuid, 1, n) : n \in 0..35}
    \cup {ValidUuid \o <<c>> : c \in UuidChars}
    \cup {<<c>> \o ValidUuid : c \in UuidChars}

UuidValues == {Undefined, Num123, Arr} \cup {Str(u) : u \in UuidStrings}

FewUuidValues ==
    {Undefined, Str(<<>>), Str(ValidUuid), Str([ValidUuid EXCEPT ![15] = "1"])}

HeaderChars == {"0", "2", "-"}

HeaderStrings == UNION {[1..n -> HeaderChars] : n \in 0..MaxHeaderLen}

HeaderValues == {Undefined} \cup {Str(x) : x \in HeaderStrings}

InitHeaders ==
    /\ ClientIdle(1)
    /\ PlanIdle
    /\ ReceiverIdle
    /\ \/ /\ reqHeaders \in [uuid : UuidValues, number : {Str(<<"2">>)}, total : {Str(<<"2">>)}]
          /\ options = [maxFileSize |-> MaxFileOption, maxChunkSize |-> MaxChunkOption]
       \/ /\ reqHeaders \in [uuid : FewUuidValues, number : HeaderValues, total : HeaderValues]
          /\ options \in [maxFileSize : 1..MaxFileOption, maxChunkSize : 1..MaxChunkOption]
    /\ verdict = <<>>

\* processBusboy runs its checks on the request
Validate ==
    /\ verdict = <<>>
    /\ reqHeaders # <<>>
    /\ verdict' = [uuid |-> checkIfUuid(reqHeaders),
                   headers |-> checkHeaders(reqHeaders),
                   outcome |-> validate(reqHeaders, options)]
    /\ UNCHANGED <<clientVars, planVars, srvVars, reqHeaders, options>>

NextHeaders == Validate

HeaderSpec == InitHeaders /\ [][NextHeaders]_vars

\* what the claims call a well-formed UUID v4 (hexadecimal digits in lower
\* case), position by position
WellFormedUuidV4(chars) ==
    /\ Len(chars) = 36
    /\ \A p \in 1..36 :
          chars[p] \in (IF p \in {9, 14, 19, 24} THEN {"-"}
                        ELSE IF p = 15 THEN {"4"}
                        ELSE IF p = 20 THEN {"8", "9", "a", "b"}
                        ELSE Hex)

Present(v) == v.t # "undefined"

AllDigits(v) == v.t = "string" /\ Len(v.s) > 0 /\ {v.s[k] : k \in DOMAIN v.s} \subseteq Digit

Rejected(m) == [kind |-> "rejected", message |-> m]

(***************************************************************************)
(* C14 as stated: checkIfUuid returns false when chibi-uuid is absent,     *)
(* throws when it is present and is not a string, has a length other than  *)
(* 36 or is not a UUID v4, and returns true exactly for a well-formed      *)
(* 36-character UUID v4.                                                   *)
(***************************************************************************)
CheckIfUuidAsStated ==
    verdict # <<>> =>
        LET u == reqHeaders.uuid
            r == verdict.uuid
        IN  /\ (~Present(u) => r = Returns(FALSE))
            /\ (Present(u) /\ (u.t # "string" \/ ~WellFormedUuidV4(u.s)) => r.throws)
            /\ (r = Returns(TRUE) <=> u.t = "string" /\ WellFormedUuidV4(u.s))

(***************************************************************************)
(* C14 amended: checkIfUuid returns false when chibi-uuid is absent or is  *)
(* the empty string, throws the matching validation error when it is any   *)
(* other value that is not a string, has a length other than 36 or is not  *)
(* a UUID v4, and returns true exactly for a well-formed UUID v4.          *)
(***************************************************************************)
CheckIfUuidEmptyAsAbsent ==
    verdict # <<>> =>
        LET u == reqHeaders.uuid
            r == verdict.uuid
        IN  /\ (~Present(u) \/ u = Str(<<>>) => r = Returns(FALSE))
            /\ (Present(u) /\ u.t # "string" => r = Throws("chibi-uuid is not a string"))
            /\ (u.t = "string" /\ Len(u.s) \notin {0, 36}
                   => r = Throws("chibi-uuid does not meet the length criteria"))
            /\ (u.t = "string" /\ Len(u.s) = 36 /\ ~WellFormedUuidV4(u.s)
                   => r = Throws("chibi-uuid is not a valid uuid"))
            /\ (r = Returns(TRUE) <=> u.t = "string" /\ WellFormedUuidV4(u.s))

\* an empty chibi-uuid header has been taken for an absent one
EmptyUuidTakenAsAbsent ==
    /\ verdict # <<>>
    /\ reqHeaders.uuid = Str(<<>>)
    /\ verdict.uuid = Returns(FALSE)

(***************************************************************************)
(* C15: checkHeaders returns true if and only if chibi-chunk-number and    *)
(* chibi-chunks-total are both present and made of digits only, false      *)
(* otherwise; a chunked request (its chibi-uuid is a well-formed UUID)     *)
(* for which it returns false is rejected with 'Invalid headers', and no   *)
(* request with a non-empty chibi-uuid for which it returns false is let   *)
(* through.                                                                *)
(***************************************************************************)
CheckHeadersIffNumeric ==
    verdict # <<>> =>
        LET h == reqHeaders
            numeric == /\ Present(h.number) /\ Present(h.total)
                       /\ AllDigits(h.number) /\ AllDigits(h.total)
        IN  /\ verdict.headers = Bool(numeric)
            /\ (h.uuid.t = "string" /\ WellFormedUuidV4(h.uuid.s) /\ ~numeric
                   => verdict.outcome = Rejected("Invalid headers"))
            /\ (Present(h.uuid) /\ h.uuid # Str(<<>>) /\ ~numeric
                   => verdict.outcome.kind = "rejected")

\* a chunked request with a signed chunk number has been rejected
SignedChunkNumberRejected ==
    /\ verdict # <<>>
    /\ reqHeaders.uuid = Str(ValidUuid)
    /\ reqHeaders.number = Str(<<"-", "2">>)
    /\ reqHeaders.total = Str(<<"2">>)
    /\ verdict.headers = Bool(FALSE)
    /\ verdict.outcome = Rejected("Invalid headers")

(***************************************************************************)
(* C19: a chunked request (well-formed chibi-uuid, numeric chunk headers)  *)
(* is rejected with 'Chunked upload is above size limit', before the body  *)
(* parser is created, exactly when maxChunkSize * chibi-chunks-total >     *)
(* maxFileSize; a request without any chunk header is never rejected.      *)
(***************************************************************************)
PlanSizeCheckedFirst ==
    verdict # <<>> =>
        LET h == reqHeaders
            chunked == /\ h.uuid.t = "string" /\ WellFormedUuidV4(h.uuid.s)
                       /\ AllDigits(h.number) /\ AllDigits(h.total)
            single == ~Present(h.uuid) /\ ~Present(h.number) /\ ~Present(h.total)
        IN  /\ (chunked /\ options.maxChunkSize * Decimal(h.total.s) > options.maxFileSize
                   => verdict.outcome = Rejected("Chunked upload is above size limit"))
            /\ (chunked /\ options.maxChunkSize * Decimal(h.total.s) <= options.maxFileSize
                   => verdict.outcome = [kind |-> "busboy", usingChunks |-> TRUE])
            /\ (single => verdict.outcome = [kind |-> "busboy", usingChunks |-> FALSE])

\* a plan one byte above the ceiling has been rejected
PlanJustAboveCeilingRejected ==
    /\ verdict # <<>>
    /\ reqHeaders.uuid = Str(ValidUuid)
    /\ AllDigits(reqHeaders.number) /\ AllDigits(reqHeaders.total)
    /\ options.maxChunkSize * Decimal(reqHeaders.total.s) = options.maxFileSize + 1
    /\ verdict.outcome = Rejected("Chunked upload is above size limit")

(***************************************************************************)
(* The receiver: processBusboy from the Busboy parser on, with             *)
(* handleSingleFile, handleFileWithChunks and joinChunks.  The requests    *)
(* have passed the header checks; the chunked ones belong to one session   *)
(* that declares SessionChunks chunks.  Each event handler is one action.  *)
(***************************************************************************)
MaxCalls == 2
SessionChunks == 2
Slack == 1024

maxChunkSize == MaxChunkOption

\* variant of the Busboy limit with twice the extra bytes
fileSizeLimitTwice == maxChunkSize + Slack + Slack

\* limits.fileSize of the Busboy parser
fileSizeLimit == maxChunkSize + Slack

BodySizes == {maxChunkSize, maxChunkSize + 1, fileSizeLimit, fileSizeLimit + 1}

\* chibi-chunk-number values that pass /^\d+$/ with SessionChunks declared
ChunkNumbers == 1..(SessionChunks + 1)

\* whether Busboy emits 'limit' on the file stream: it does for a file
\* above limits.fileSize and does not below it; for a file of exactly
\* limits.fileSize bytes it depends on the version of the parser
reachedFileSizeLimit(size) ==
    IF size > fileSizeLimit THEN {TRUE}
    ELSE IF size = fileSizeLimit THEN {TRUE, FALSE}
    ELSE {FALSE}

\* the request: chunked or not, its chibi-chunk-number, the size of its
\* file part, and its metadata ("noname": a last chunk without a name
\* field, the only chunk whose name is read; "blocked": a file whose
\* extension is blocked)
Requests ==
    [kind : {"chunk"}, number : ChunkNumbers, size : BodySizes, meta : {"ok"}]
    \cup [kind : {"chunk"}, number : {SessionChunks}, size : BodySizes, meta : {"noname"}]
    \cup [kind : {"single"}, number : {0}, size : BodySizes, meta : {"ok", "blocked"}]

\* the value the promise of processBusboy resolves with; path and metadata
\* say whether the object has that property
NoResult == [isChunkedUpload |-> FALSE, ready |-> FALSE, path |-> FALSE, metadata |-> FALSE]

\* handleSingleFile: `resolve({isChunkedUpload: false, ready: true, path: filePath})`,
\* spread with metadata by the 'close' handler of busboy
SingleFileResult == [isChunkedUpload |-> FALSE, ready |-> TRUE, path |-> TRUE, metadata |-> TRUE]

\* the 'close' handler of busboy for a chunk that is not the last one:
\* `resolve({isChunkedUpload: true, ready: false})`
ChunkResult == [isChunkedUpload |-> TRUE, ready |-> FALSE, path |-> FALSE, metadata |-> FALSE]

\* joinChunks: `resolve({isChunkedUpload: true, ready: false, path: finalFilePath})`,
\* spread with metadata by the 'close' handler of busboy
stitchedUpload == [isChunkedUpload |-> TRUE, ready |-> FALSE, path |-> TRUE, metadata |-> TRUE]

\* st and error are the state of the promise of processBusboy; upload is
\* its value; pf and thrown are the state of the promise of processFile;
\* status is the HTTP status the handler has answered with (0: none yet);
\* sound and partial are history of the assembly
NewCall(req) ==
    [kind |-> req.kind, number |-> req.number, size |-> req.size, meta |-> req.meta,
     st |-> "parsing", error |-> "", wrote |-> FALSE, lost |-> FALSE, count |-> 0,
     upload |-> NoResult, pf |-> "pending", thrown |-> "", status |-> 0,
     sound |-> FALSE, partial |-> FALSE]

\* the switch of the handler's catch: no case ends with `break`, so that
\* control falls from the matching case through every assignment below it
statusCode(message) ==
    LET initial == 500
        first == {"Chunked upload is above size limit", "Chunk is too big", "File is too big"}
        second == {"Missing chibi-* headers", "chibi-uuid is not a string",
                   "chibi-uuid does not meet the length criteria",
                   "chibi-uuid is not a valid uuid", "Chunk is out of range",
                   "Invalid headers"}
        afterFirst == IF message \in first THEN 413 ELSE initial
    IN  IF message \in first \cup second THEN 400 ELSE afterFirst

\* processFile after `await processBusboy(req, options)`, up to its next
\* await or its end: a rejection is passed on; otherwise
\* inspectAsync(upload.path) and the assignment to upload.metadata.size.
\* Without a path fs-jetpack refuses the argument, and without metadata
\* the assignment throws a TypeError: processFile rejects with a message
\* of its own.  With a path it awaits the inspection.
processFile(call) ==
    IF call.st = "rejected"
    THEN [call EXCEPT !.pf = "rejected", !.thrown = call.error]
    ELSE IF call.st = "resolved" /\ ~(call.upload.path /\ call.upload.metadata)
    THEN [call EXCEPT !.pf = "rejected", !.thrown = "TypeError"]
    ELSE call

\* the request handler of the reference server after `await processFile`
Handler(call) ==
    IF call.pf = "pending" THEN call
    ELSE [call EXCEPT
            !.status = IF call.pf = "returned"
                       THEN IF call.upload.isChunkedUpload /\ ~call.upload.ready
                            THEN 204 ELSE 201
                       ELSE statusCode(call.thrown)]

\* the promise of processBusboy of call c has settled: the continuations
\* of processFile and of the handler run as microtasks of the same turn
Continue(cs, c) == [cs EXCEPT ![c] = Handler(processFile(cs[c]))]

\* whether some call has chunk file k open for writing
OpenForWriting(k) ==
    \E d \in DOMAIN calls :
        calls[d].kind = "chunk" /\ calls[d].number = k
            /\ calls[d].st = "writing" /\ ~calls[d].lost

\* handleFileWithChunks: `chunkCount < 0 || chunkCount > totalChunks`
OutOfRange(number) == number < 0 \/ number > SessionChunks

\* removeAsync of the temp directory: the chunk files are gone, and so is
\* the file of every write stream that is still open in it
Unlinked(cs) ==
    [k \in DOMAIN cs |->
        IF cs[k].kind = "chunk" /\ cs[k].st = "writing"
        THEN [cs[k] EXCEPT !.lost = TRUE] ELSE cs[k]]

InitReceiver ==
    /\ ClientIdle(SessionChunks)
    /\ PlanIdle
    /\ HeadersIdle
    /\ ReceiverIdle

\* a request arrives and passes the checks of processBusboy; req.pipe(busboy)
Arrive(req) ==
    /\ Len(calls) < MaxCalls
    /\ calls' = Append(calls, NewCall(req))
    /\ UNCHANGED <<clientVars, planVars, hdrVars, dir, files>>

\* busboy 'close': the body has been parsed into memory
BusboyClose(c, hit) ==
    /\ c \in DOMAIN calls
    /\ calls[c].st = "parsing"
    /\ hit \in reachedFileSizeLimit(calls[c].size)
    /\ IF hit
       THEN \* await jetpack.removeAsync(...)
            /\ calls' = [calls EXCEPT ![c].st = "removing"]
            /\ UNCHANGED <<dir, files>>
       ELSE IF calls[c].kind = "chunk"
       THEN \* handleFileWithChunks: jetpack.dir, createWriteStream, the
            \* range check (which does not return), fileStream.pipe
            /\ dir' = TRUE
            /\ files' = [k \in DOMAIN files \cup {calls[c].number} |->
                            IF k = calls[c].number THEN 0 ELSE files[k]]
            /\ calls' = [calls EXCEPT
                            ![c].st = "writing",
                            ![c].error = IF OutOfRange(calls[c].number)
                                         THEN "Chunk is out of range" ELSE ""]
       ELSE \* handleSingleFile
            /\ calls' = [calls EXCEPT
                            ![c].st = IF calls[c].meta = "blocked" THEN "unlinking" ELSE "writing"]
            /\ UNCHANGED <<dir, files>>
    /\ UNCHANGED <<clientVars, planVars, hdrVars>>

\* removeAsync has finished after a 'limit': reject(...)
RemoveDone(c) ==
    /\ c \in DOMAIN calls
    /\ calls[c].st = "removing"
    /\ IF calls[c].kind = "chunk"
       THEN /\ dir' = FALSE
            /\ files' = <<>>
            /\ calls' = Continue([Unlinked(calls) EXCEPT ![c].st = "rejected",
                                                         ![c].error = "Chunk is too big"], c)
       ELSE /\ calls' = Continue([calls EXCEPT ![c].st = "rejected",
                                               ![c].error = "File is too big"], c)
            /\ UNCHANGED <<dir, files>>
    /\ UNCHANGED <<clientVars, planVars, hdrVars>>

\* handleSingleFile throws 'File extension is blocked' inside the async
\* 'close' handler of busboy: nothing settles the promise of processBusboy
Blocked(c) ==
    /\ c \in DOMAIN calls
    /\ calls[c].st = "unlinking"
    /\ calls' = [calls EXCEPT ![c].st = "hung", ![c].error = "File extension is blocked"]
    /\ UNCHANGED <<clientVars, planVars, hdrVars, dir, files>>

\* writeStream 'close' of handleFileWithChunks or handleSingleFile
WriteClose(c) ==
    /\ c \in DOMAIN calls
    /\ calls[c].st = "writing"
    /\ LET call == calls[c]
           kept == call.kind = "single" \/ ~call.lost
       IN  /\ files' = IF call.kind = "chunk" /\ ~call.lost
                       THEN [files EXCEPT ![call.number] = call.size]
                       ELSE files
           /\ calls' = Continue(
                 [calls EXCEPT
                    ![c].wrote = kept,
                    ![c].count = IF call.kind = "chunk" /\ call.error = ""
                                    /\ call.number = SessionChunks /\ call.meta = "ok"
                                 THEN 1 ELSE 0,
                    ![c].upload = IF call.kind = "single" THEN SingleFileResult
                                  ELSE IF call.error = "" /\ call.number # SessionChunks
                                  THEN ChunkResult ELSE NoResult,
                    \* whether every chunk file of the session is there and
                    \* closed when joinChunks is called
                    ![c].sound = /\ call.kind = "chunk" /\ call.error = ""
                                 /\ call.number = SessionChunks /\ call.meta = "ok"
                                 /\ \A k \in 1..SessionChunks :
                                        /\ k \in DOMAIN files'
                                        /\ (k # call.number => ~OpenForWriting(k)),
                    ![c].st =
                       IF call.kind = "single" THEN "resolved"
                       ELSE IF call.error # ""
                       THEN \* the promise of handleFileWithChunks was rejected before
                            \* the write: the awaiting 'close' handler of busboy has thrown
                            "hung"
                       ELSE IF call.number = SessionChunks
                       THEN \* path.extname(metadata.name) throws without a name
                            IF call.meta = "noname" THEN "hung" ELSE "joining"
                       ELSE "resolved",
                    ![c].error =
                       IF call.kind = "chunk" /\ call.error = ""
                          /\ call.number = SessionChunks /\ call.meta = "noname"
                       THEN "metadata.name is undefined" ELSE call.error], c)
    /\ UNCHANGED <<clientVars, planVars, hdrVars, dir>>

\* joinChunks: the read stream of chunk file `count` errors or ends
JoinStep(c) ==
    /\ c \in DOMAIN calls
    /\ calls[c].st = "joining"
    /\ IF calls[c].count \notin DOMAIN files
       THEN \* reject('Error reading chunk') inside joinChunks: the awaiting
            \* 'close' handler of busboy throws
            /\ calls' = [calls EXCEPT ![c].st = "hung", ![c].error = "Error reading chunk"]
            /\ UNCHANGED <<dir, files>>
       ELSE IF MoreChunks(calls[c].count + 1, SessionChunks)
       THEN /\ calls' = [calls EXCEPT ![c].count = @ + 1,
                                      ![c].partial = @ \/ OpenForWriting(calls[c].count)]
            /\ UNCHANGED <<dir, files>>
       ELSE \* writeStream.end(), removeAsync(dirPath), resolve
            /\ dir' = FALSE
            /\ files' = <<>>
            /\ calls' = [Unlinked(calls) EXCEPT
                            ![c].st = "resolved",
                            ![c].count = @ + 1,
                            ![c].partial = @ \/ OpenForWriting(calls[c].count),
                            ![c].upload = stitchedUpload]
    /\ UNCHANGED <<clientVars, planVars, hdrVars>>

\* jetpack.inspectAsync(upload.path) has finished: processFile sets
\* upload.metadata.size and returns, the handler answers
Inspected(c) ==
    /\ c \in DOMAIN calls
    /\ calls[c].st = "resolved"
    /\ calls[c].upload.path
    /\ calls[c].pf = "pending"
    /\ calls' = [calls EXCEPT ![c] = Handler([calls[c] EXCEPT !.pf = "returned"])]
    /\ UNCHANGED <<clientVars, planVars, hdrVars, dir, files>>

NextReceiver ==
    \/ \E req \in Requests : Arrive(req)
    \/ \E c \in DOMAIN calls : Inspected(c)
    \/ \E c \in DOMAIN calls, hit \in BOOLEAN : BusboyClose(c, hit)
    \/ \E c \in DOMAIN calls : RemoveDone(c)
    \/ \E c \in DOMAIN calls : Blocked(c)
    \/ \E c \in DOMAIN calls : WriteClose(c)
    \/ \E c \in DOMAIN calls : JoinStep(c)

ReceiverSpec == InitReceiver /\ [][NextReceiver]_vars

\* the call can take no further step
Ended(c) == calls[c].st \in {"resolved", "rejected", "hung"}

(***************************************************************************)
(* C16: a chunk whose number is out of range is never written to the temp  *)
(* directory, and once its processing call has finished the call is        *)
(* rejected with 'Chunk is out of range' and no chunk file of that number  *)
(* exists.                                                                 *)
(***************************************************************************)
OutOfRangeChunkNotPersisted ==
    \A c \in DOMAIN calls :
        calls[c].kind = "chunk" /\ OutOfRange(calls[c].number) =>
            /\ ~calls[c].wrote
            /\ (Ended(c) => /\ calls[c].st = "rejected"
                            /\ calls[c].error = "Chunk is out of range"
                            /\ calls[c].number \notin DOMAIN files)

(***************************************************************************)
(* C17: once a call of the session has failed with 'Chunk is too big', no  *)
(* chunk file of the session is on disk, whatever other chunks have been   *)
(* received before, meanwhile or afterwards.                               *)
(***************************************************************************)
NoChunkFileAfterOversize ==
    (\E c \in DOMAIN calls : calls[c].st = "rejected" /\ calls[c].error = "Chunk is too big")
        => ~dir /\ DOMAIN files = {}

(***************************************************************************)
(* C18 as stated: a body of more than maxChunkSize bytes is never          *)
(* persisted, and its call ends rejected with a size-limit error.          *)
(***************************************************************************)
SizeLimitErrors == {"Chunk is too big", "File is too big"}

BodyAboveMaxChunkSizeRejected ==
    \A c \in DOMAIN calls :
        calls[c].size > maxChunkSize =>
            /\ ~calls[c].wrote
            /\ calls[c].st \in {"parsing", "removing", "rejected"}
            /\ (Ended(c) => calls[c].error \in SizeLimitErrors)

(***************************************************************************)
(* C18 amended: a body of more than maxChunkSize + 1024 bytes is never     *)
(* persisted, and its call ends rejected with a size-limit error.          *)
(***************************************************************************)
BodyAboveLimitWithSlackRejected ==
    \A c \in DOMAIN calls :
        calls[c].size > maxChunkSize + Slack =>
            /\ ~calls[c].wrote
            /\ calls[c].st \in {"parsing", "removing", "rejected"}
            /\ (Ended(c) => calls[c].error \in SizeLimitErrors)

\* a chunk one byte above the limit of the parser has been rejected while a
\* chunk one byte above maxChunkSize has been written
OversizeRejectedAfterSlackKept ==
    \E c, d \in DOMAIN calls :
        /\ calls[c].size = maxChunkSize + Slack + 1
        /\ calls[c].st = "rejected"
        /\ calls[c].error = "Chunk is too big"
        /\ calls[d].size = maxChunkSize + 1
        /\ calls[d].wrote

(***************************************************************************)
(* C20: no processing call is left with its promise unsettled: a call that *)
(* can take no further step has resolved or rejected.                      *)
(***************************************************************************)
NoCallLeftUnsettled ==
    \A c \in DOMAIN calls : calls[c].st # "hung"

(***************************************************************************)
(* Further properties of the client scheduler                              *)
(***************************************************************************)

(***************************************************************************)
(* C21: in a multi-chunk session, once the latest answer to some chunk is  *)
(* a fatal one (a status that is neither a success nor retryable, handled  *)
(* while not paused, for which onError was reported), no further chunk     *)
(* request is issued.                                                      *)
(***************************************************************************)
FatalHaltsSession ==
    [][(totalChunks > 1 /\ \E i \in Chunks : outcome[i] = "fatal")
          => InFlight' \subseteq InFlight]_vars

(***************************************************************************)
(* The multi-chunk session with parallel sends that is never paused, with  *)
(* the value of chibi-chunk-number and the outcome of the parsed body      *)
(* followed.  Send runs overlap through the retry timers and start().      *)
(***************************************************************************)
InitNumbers ==
    /\ Start(MaxChunks, FALSE)
    /\ track = TRUE
    /\ maxParallelUploads = MaxParallel
    /\ totalChunks = MaxChunks

NextNumbers ==
    \/ \E r \in DOMAIN runs, i \in Chunks : BufferReady(r, i)
    \/ \E r \in DOMAIN runs, i \in Chunks, status \in Statuses : Respond(r, i, status)
    \/ \E r \in DOMAIN runs, i \in Chunks, body \in Bodies : JsonReady(r, i, body)
    \/ RetryTimer
    \/ start

NumberSpec == InitNumbers /\ [][NextNumbers]_vars

(***************************************************************************)
(* C23: the step that handles the body of the last chunk's successful      *)
(* answer, when the body has no url or is not JSON, signals an error       *)
(* (recorded as the chunk's outcome) and does not invoke onFinish.         *)
(***************************************************************************)
NoLocatorStep ==
    [][\A r \in DOMAIN runs, i \in Chunks, body \in {"nourl", "badjson"} :
          JsonReady(r, i, body) =>
              /\ onFinishN' = onFinishN
              /\ outcome'[i] \in {"nolocator", "badjson"}]_vars

(***************************************************************************)
(* C27: onFinish is invoked at most once per session; here for the        *)
(* sessions in which the caller calls neither start() nor togglePause(),   *)
(* so that only the retry timers re-run the send routine.                  *)
(***************************************************************************)
FinishAtMostOnce == (startCalls = 0 /\ toggleCalls = 0) => onFinishN <= 1

(***************************************************************************)
(* C30: no chunk request has been sent with a chibi-chunk-number other     *)
(* than the index of the chunk in its body.                                *)
(***************************************************************************)
ChunkNumberMatchesBody == ~misnumbered

\* two chunks of a batch are in flight, the header object holding the
\* number of the one sent last
TwoNumbersInFlight ==
    /\ track
    /\ \E q1, q2 \in InFlight : q1[1] = q2[1] /\ q1[2] # q2[2]
    /\ chunkNumber \in Chunks

LocatorMissingReported ==
    /\ \E i \in Chunks : outcome[i] \in {"nolocator", "badjson"}
    /\ lastAccepted
    /\ onFinishN = 0

chibiUploader ==
    /\ StopUploadsBecauseError' = FALSE
    /\ UNCHANGED <<cfgVars, auxVars, reqVars, paused, retriesCount, runs, timers,
                   startCalls, toggleCalls, failures, histVars>>

InitProcess == Start(MaxLiveChunks, FALSE) /\ track = FALSE

NextProcess ==
    \/ Next
    \/ chibiUploader

ProcessSpec == InitProcess /\ [][NextProcess]_vars

(***************************************************************************)
(* C22: once a 413 has set the fatal-stop flag, no further chunk request   *)
(* of the session is issued, whatever happens afterwards.                  *)
(***************************************************************************)
NoSendAfterFatalStop == [][fatalN > 0 => InFlight' \subseteq InFlight]_vars

(***************************************************************************)
(* Further properties of the receiver and of the reference handler         *)
(***************************************************************************)

(***************************************************************************)
(* C25: for a chunk that is not the last one, is within the size limit     *)
(* and has been written, processFile does not reject; what it returns has  *)
(* isChunkedUpload == true and ready == false, and the handler answers 204.*)
(***************************************************************************)
NonFinalChunkAnswered204 ==
    \A c \in DOMAIN calls :
        (/\ calls[c].kind = "chunk"
         /\ calls[c].number < SessionChunks
         /\ calls[c].size <= maxChunkSize
         /\ calls[c].wrote
         /\ calls[c].st = "resolved") =>
            /\ calls[c].pf # "rejected"
            /\ (calls[c].pf = "returned" =>
                    calls[c].upload.isChunkedUpload /\ ~calls[c].upload.ready)
            /\ (calls[c].status # 0 => calls[c].status = 204)

(***************************************************************************)
(* C26: a failure is answered with 413 when it is a size-limit error, with *)
(* 400 when it is a header or range validation error, and with 500         *)
(* otherwise.                                                              *)
(***************************************************************************)
FailureAnsweredByKind ==
    \A c \in DOMAIN calls :
        (calls[c].pf = "rejected" /\ calls[c].status # 0) =>
            calls[c].status =
                IF calls[c].thrown \in {"Chunked upload is above size limit",
                                        "Chunk is too big", "File is too big"}
                THEN 413
                ELSE IF calls[c].thrown \in {"chibi-uuid is not a string",
                                             "chibi-uuid does not meet the length criteria",
                                             "chibi-uuid is not a valid uuid",
                                             "Chunk is out of range", "Invalid headers"}
                THEN 400
                ELSE 500

(***************************************************************************)
(* C28: when the call of the last chunk has resolved with the assembled    *)
(* file, every chunk file of the session was there and closed when the     *)
(* assembly started, and the assembly has read no chunk file that was      *)
(* still being written.                                                    *)
(***************************************************************************)
AssemblyFromCompleteChunks ==
    \A c \in DOMAIN calls :
        (/\ calls[c].kind = "chunk"
         /\ calls[c].number = SessionChunks
         /\ calls[c].st = "resolved"
         /\ calls[c].upload.path) =>
            calls[c].sound /\ ~calls[c].partial

(***************************************************************************)
(* C29: in what processFile returns, ready is true exactly when the result *)
(* carries the path of the final file.                                     *)
(***************************************************************************)
ReadyIffFinalPath ==
    \A c \in DOMAIN calls :
        calls[c].pf = "returned" => (calls[c].upload.ready <=> calls[c].upload.path)

=============================================================================
